---- MODULE Spec2Model ----
(***************************************************************************)
(* PregeneratedCheckoutTaxPayloadsByCheckoutTokenLoader.batch_load of      *)
(* saleor/graphql/webhook/dataloaders.py as a state machine.               *)
(*                                                                         *)
(* One behaviour is one batch_load call: the three dependency loads are    *)
(* issued and joined, generate_payloads walks the checkouts and issues the *)
(* payload-generation promises, the promises settle in any order, their    *)
(* handlers run from the promise library's FIFO queue, and return_payloads *)
(* projects the nested result map onto the input keys.                     *)
(*                                                                         *)
(* The values of the loads are what generate_payloads receives as `data`   *)
(* (line 113): they are drawn when it is called and are gone when it       *)
(* returns. The promise library runs the handlers of settled promises from *)
(* one first-in first-out queue, handlers of one promise in the order they *)
(* were registered; asyncQueue is that queue. gated records for which      *)
(* checkouts the branch of line 129 was entered; the code keeps no such    *)
(* record, it is kept here to state what the result may contain.           *)
(*                                                                         *)
(* The second part of the module is the three keyed loaders of lines 32-71 *)
(* (payloads by id, webhook events by webhook id, webhooks by app id) run  *)
(* by the batched loader engine within one request context: SpecLoader.    *)
(* Their batch_load methods are taken from the source; the engine (load,   *)
(* load_many, the context cache and the flush at the end of a tick) is     *)
(* taken from section 4.1 of the specification. Spec leaves the loaders'   *)
(* context untouched and SpecLoader leaves batch_load at rest.             *)
(***************************************************************************)
EXTENDS Integers, Sequences, FiniteSets, TLC

\* ---------------------------------------------------------------- bounds
\* Checkout tokens a call may be given
NumTokens == 2
\* Longest list get_webhooks_for_event returns
MaxWebhooks == 2
\* Largest Len(keys) * Len(webhooks), the most generation calls of one call
MaxCalls == 2
\* Latest reading of the clock; price expirations range over the same values
MaxTime == 2

\* ------------------------------------------------------- value universes
Tokens == 1..NumTokens
Times == 1..MaxTime
AppIds == {1, 2}
Queries == {"", "q1", "q2"}
Payloads == {"p1", "p2"}
NoPayload == "none"
NoApp == [id |-> 0, identifier |-> ""]
NoIdentifier == ""
Strategies == {"TAX_APP", "FLAT_RATES"}
LoadNames == {"checkouts_info", "lines", "apps"}

\* Queue entry of the promise Promise.all(promises)
AllPromise == 0

\* str(checkout.pk) / str(checkout_token)
TokenStr(t) == <<"c1", "c2", "c3", "c4">>[t]

\* App.identifier of the integration record with the given id
AppIdentifier(a) == IF a = 1 THEN "P" ELSE "Q"

AppRecord(a) == [id |-> a, identifier |-> AppIdentifier(a)]

\* get_subscription_query_hash: a stable fingerprint of the query text
QueryHash(q) == IF q = "q1" THEN "h1" ELSE IF q = "q2" THEN "h2" ELSE "h0"

Webhooks == [app_id : AppIds, subscription_query : Queries]

CheckoutInfos == [pk : Tokens, tax_strategy : Strategies,
                  price_expiration : Times,
                  tax_app_identifier : {NoIdentifier, "P", "Q"}]

\* The sequences of length at most n over S
SeqsUpTo(S, n) == UNION {[1..k -> S] : k \in 0..n}

\* The key sequences a loader is flushed with: distinct keys, any order
KeySeqs == {s \in SeqsUpTo(Tokens, NumTokens) :
              \A i, j \in 1..Len(s) : s[i] = s[j] => i = j}

VARIABLES
  keys,            \* batch_load's argument
  pc,              \* position of the call
  webhooks,        \* get_webhooks_for_event(event_type)
  loads,           \* state of the three load_many promises
  checkouts_info,  \* generate_payloads' argument: the checkout infos
  apps,            \* generate_payloads' argument: the integration records
  idx,             \* position of generate_payloads' loop over the checkouts
  now,             \* last reading of timezone.now() in the loop
  promises,        \* the payload-generation promises, in issue order
  asyncQueue,      \* settled promises whose handlers have not run yet
  joined,          \* fulfilled promises counted by Promise.all(promises)
  allState,        \* state of Promise.all(promises)
  results,         \* the nested defaultdict
  output,          \* value batch_load's promise resolved with
  gated            \* pks of the checkouts for which line 129 was reached

pregenVars == <<keys, pc, webhooks, loads, checkouts_info, apps, idx, now,
                promises, asyncQueue, joined, allState, results, output,
                gated>>

\* ------------------------------------------------ dictionaries as functions
EmptyDict == << >>

Get(d, k, default) == IF k \in DOMAIN d THEN d[k] ELSE default

Put(d, k, v) == [x \in (DOMAIN d) \cup {k} |-> IF x = k THEN v ELSE d[x]]

\* results[checkout_token][app_id][query_hash] = payload on the defaultdict
SetCell(res, checkout_token, app_id, query_hash, payload) ==
  LET byApp == Get(res, checkout_token, EmptyDict)
      byHash == Get(byApp, app_id, EmptyDict)
  IN Put(res, checkout_token, Put(byApp, app_id, Put(byHash, query_hash, payload)))

\* results[k] on defaultdict(lambda: defaultdict(dict)): a miss inserts an empty map
Touch(res, k) == IF k \in DOMAIN res THEN res ELSE Put(res, k, EmptyDict)

RECURSIVE TouchAll(_, _)
TouchAll(res, ks) ==
  IF ks = << >> THEN res ELSE TouchAll(Touch(res, TokenStr(Head(ks))), Tail(ks))

\* ------------------------------------------------------- the code's pieces
\* apps_ids = [webhook.app_id for webhook in webhooks]
AppsIds(ws) == [i \in 1..Len(ws) |-> ws[i].app_id]

\* apps_map = {app.id: app for app in apps}; app.id raises on a missing record
AppsMapRaises(as) == \E i \in 1..Len(as) : as[i] = NoApp

AppsMap(as) ==
  [a \in {as[i].id : i \in 1..Len(as)} |->
     as[CHOOSE i \in 1..Len(as) :
          as[i].id = a /\ \A j \in 1..Len(as) : as[j].id = a => j <= i]]

\* Eligible without the staleness test
EligibleAnyPrice(info, t) == info.tax_strategy = "TAX_APP"

EligibleAnyStrategy(info, t) == info.price_expiration <= t

\* tax_strategy == TAX_APP and checkout.price_expiration <= timezone.now()
Eligible(info, t) ==
  info.tax_strategy = "TAX_APP" /\ info.price_expiration <= t

\* Selected without the preferred integration
SelectedAnyApp(webhook, app, tax_app_identifier) ==
  webhook.subscription_query # ""

\* webhook.subscription_query and (not tax_app_identifier or app.identifier == tax_app_identifier)
Selected(webhook, app, tax_app_identifier) ==
  /\ webhook.subscription_query # ""
  /\ (tax_app_identifier = NoIdentifier \/ app.identifier = tax_app_identifier)

NewPromiseFirstToken(info, webhook) ==
  [subject |-> info.pk,
   subscription_query |-> webhook.subscription_query,
   app_id |-> webhook.app_id,
   checkout_token |-> TokenStr(1),
   query_hash |-> QueryHash(webhook.subscription_query),
   state |-> "pending",
   value |-> NoPayload]

\* One issued generate_payload_promise_from_subscription call and the closure
\* of the store_payload registered on it
NewPromise(info, webhook) ==
  [subject |-> info.pk,
   subscription_query |-> webhook.subscription_query,
   app_id |-> webhook.app_id,
   checkout_token |-> TokenStr(info.pk),
   query_hash |-> QueryHash(webhook.subscription_query),
   state |-> "pending",
   value |-> NoPayload]

\* The inner loop with store_payload reading checkout_token, app_id and
\* query_hash at call time instead of binding them as defaults: every closure
\* sees the values of the last turn
RECURSIVE IssueForLateBinding(_, _, _, _)
IssueForLateBinding(info, ws, as, w) ==
  IF w > Len(ws) THEN << >>
  ELSE LET rest == IssueForLateBinding(info, ws, as, w + 1)
           last == ws[Len(ws)]
       IN IF (ws[w].subscription_query # ""
              /\ (info.tax_app_identifier = NoIdentifier
                  \/ AppsMap(as)[ws[w].app_id].identifier = info.tax_app_identifier))
          THEN <<[NewPromise(info, ws[w]) EXCEPT
                    !.app_id = last.app_id,
                    !.query_hash = QueryHash(last.subscription_query)]>> \o rest
          ELSE rest

RECURSIVE IssueForFirstSelected(_, _, _, _)
IssueForFirstSelected(info, ws, as, w) ==
  IF w > Len(ws) THEN << >>
  ELSE IF (ws[w].subscription_query # ""
           /\ (info.tax_app_identifier = NoIdentifier
               \/ AppsMap(as)[ws[w].app_id].identifier = info.tax_app_identifier))
       THEN <<NewPromise(info, ws[w])>>
       ELSE IssueForFirstSelected(info, ws, as, w + 1)

\* The inner loop over the webhooks for one checkout, from position w on
RECURSIVE IssueFor(_, _, _, _)
IssueFor(info, ws, as, w) ==
  IF w > Len(ws) THEN << >>
  ELSE LET rest == IssueFor(info, ws, as, w + 1)
       IN IF Selected(ws[w], AppsMap(as)[ws[w].app_id], info.tax_app_identifier)
          THEN <<NewPromise(info, ws[w])>> \o rest
          ELSE rest

\* store_payload without the test of the payload
StorePayloadAlways(res, p, payload) ==
  SetCell(res, p.checkout_token, p.app_id, p.query_hash, payload)

\* store_payload replacing the checkout's whole mapping
StorePayloadOverwrite(res, p, payload) ==
  IF payload # NoPayload
  THEN Put(res, p.checkout_token,
           Put(EmptyDict, p.app_id, Put(EmptyDict, p.query_hash, payload)))
  ELSE res

\* def store_payload(payload, checkout_token, app_id, query_hash)
StorePayload(res, p, payload) ==
  IF payload # NoPayload
  THEN SetCell(res, p.checkout_token, p.app_id, p.query_hash, payload)
  ELSE res

\* The join fulfilled once every load is settled, rejected or not
LoadsSettled(ls) == \A n \in LoadNames : ls[n] \in {"resolved", "rejected"}

\* The join fulfilled by the first resolved load
LoadsAnyResolved(ls) == \E n \in LoadNames : ls[n] = "resolved"

\* Promise.all over the three load_many promises is fulfilled
LoadsJoined(ls) == \A n \in LoadNames : ls[n] = "resolved"

\* Promise.all over the three load_many promises is rejected
LoadsFailed(ls) == \E n \in LoadNames : ls[n] = "rejected"

\* The join fulfilled by the first fulfilled promise
PromiseAnyFulfilled(count, total) == count >= 1 \/ count = total

\* Promise.all(promises) is fulfilled once every promise of the list is
PromiseAllFulfilled(count, total) == count = total

\* A join that a rejected promise does not settle
PromiseAllIgnoringRejection(current, settledAs, count, total) ==
  IF current # "pending" THEN current
  ELSE IF settledAs = "rejected" THEN "pending"
  ELSE IF count = total THEN "fulfilled"
  ELSE "pending"

\* State of Promise.all(promises) after the handler it registered on one of
\* the promises ran: the first rejection rejects it, the last fulfilment
\* fulfils it, and a settled promise stays as it is
PromiseAllState(current, settledAs, count, total) ==
  IF current # "pending" THEN current
  ELSE IF settledAs = "rejected" THEN "rejected"
  ELSE IF PromiseAllFulfilled(count, total) THEN "fulfilled"
  ELSE "pending"

\* The projection that leaves out the keys without a payload
ReturnPayloadsOmitEmpty(res, ks) ==
  SelectSeq([i \in 1..Len(ks) |-> Get(res, TokenStr(ks[i]), EmptyDict)],
            LAMBDA m : m # EmptyDict)

\* [results[str(checkout_token)] for checkout_token in keys]
ReturnPayloadsValue(res, ks) ==
  [i \in 1..Len(ks) |-> Get(res, TokenStr(ks[i]), EmptyDict)]

\* ------------------------------------------------- the loaders' context
\* context_key of the three keyed loaders (lines 33, 47, 62)
Loaders == {"payload_by_id", "webhook_events_by_webhook_id", "webhooks_by_app_id"}

VARIABLES
  ldCache,     \* per loader: key -> the future handed out for it
  ldBatch,     \* per loader: the keys collected in the current tick
  ldFutures,   \* per loader: the futures it created, by identity
  ldCalls,     \* per loader: its load / load_many calls and their futures
  ldFetches,   \* per loader: its batch_load calls and what the fetch found
  ldTick       \* per loader: the scheduling tick it is in

loaderVars == <<ldCache, ldBatch, ldFutures, ldCalls, ldFetches, ldTick>>

vars == <<pregenVars, loaderVars>>

\* A context in which no loader was used
LoaderInit ==
  /\ ldCache = [l \in Loaders |-> EmptyDict]
  /\ ldBatch = [l \in Loaders |-> << >>]
  /\ ldFutures = [l \in Loaders |-> << >>]
  /\ ldCalls = [l \in Loaders |-> << >>]
  /\ ldFetches = [l \in Loaders |-> << >>]
  /\ ldTick = [l \in Loaders |-> 1]

\* ------------------------------------------------------------------ Init
Init ==
  /\ keys \in KeySeqs
  /\ pc = "setup"
  /\ webhooks = << >>
  /\ loads = [n \in LoadNames |-> "unissued"]
  /\ checkouts_info = << >>
  /\ apps = << >>
  /\ idx = 0
  /\ now = 1
  /\ promises = << >>
  /\ asyncQueue = << >>
  /\ joined = 0
  /\ allState = "none"
  /\ results = EmptyDict
  /\ output = << >>
  /\ gated = {}
  /\ LoaderInit

\* --------------------------------------------------------------- actions
\* lines 96-109: results, event_type, request_context, webhooks, apps_ids
Setup ==
  /\ pc = "setup"
  /\ \E ws \in SeqsUpTo(Webhooks, MaxWebhooks) :
       /\ Len(keys) * Len(ws) <= MaxCalls
       /\ webhooks' = ws
  /\ pc' = "load_checkouts"
  /\ UNCHANGED <<keys, loads, checkouts_info, apps, idx, now, promises,
                 asyncQueue, joined, allState, results, output>>
  /\ UNCHANGED <<gated, loaderVars>>

\* line 175: CheckoutInfoByCheckoutTokenLoader(self.context).load_many(keys)
IssueCheckoutsInfo ==
  /\ pc = "load_checkouts"
  /\ loads' = [loads EXCEPT !["checkouts_info"] = "pending"]
  /\ pc' = "load_lines"
  /\ UNCHANGED <<keys, webhooks, checkouts_info, apps, idx, now, promises,
                 asyncQueue, joined, allState, results, output>>
  /\ UNCHANGED <<gated, loaderVars>>

\* line 176: CheckoutLinesInfoByCheckoutTokenLoader(self.context).load_many(keys)
IssueLines ==
  /\ pc = "load_lines"
  /\ loads' = [loads EXCEPT !["lines"] = "pending"]
  /\ pc' = "load_apps"
  /\ UNCHANGED <<keys, webhooks, checkouts_info, apps, idx, now, promises,
                 asyncQueue, joined, allState, results, output>>
  /\ UNCHANGED <<gated, loaderVars>>

\* line 177: AppByIdLoader(self.context).load_many(apps_ids)
IssueApps ==
  /\ pc = "load_apps"
  /\ loads' = [loads EXCEPT !["apps"] = "pending"]
  /\ pc' = "join"
  /\ UNCHANGED <<keys, webhooks, checkouts_info, apps, idx, now, promises,
                 asyncQueue, joined, allState, results, output>>
  /\ UNCHANGED <<gated, loaderVars>>

\* line 178: Promise.all([checkouts_info, lines, apps]).then(generate_payloads)
Join ==
  /\ pc = "join"
  /\ pc' = "collecting"
  /\ UNCHANGED <<keys, webhooks, loads, checkouts_info, apps, idx, now,
                 promises, asyncQueue, joined, allState, results, output>>
  /\ UNCHANGED <<gated, loaderVars>>

\* One of the three load_many promises is fulfilled
ResolveLoad(n) ==
  /\ loads[n] = "pending"
  /\ loads' = [loads EXCEPT ![n] = "resolved"]
  /\ UNCHANGED <<keys, pc, webhooks, checkouts_info, apps, idx, now,
                 promises, asyncQueue, joined, allState, results, output>>
  /\ UNCHANGED <<gated, loaderVars>>

\* One of the three load_many promises is rejected
RejectLoad(n) ==
  /\ loads[n] = "pending"
  /\ loads' = [loads EXCEPT ![n] = "rejected"]
  /\ UNCHANGED <<keys, pc, webhooks, checkouts_info, apps, idx, now,
                 promises, asyncQueue, joined, allState, results, output>>
  /\ UNCHANGED <<gated, loaderVars>>

\* line 178: the join rejects, generate_payloads is never called
DependencyFailed ==
  /\ pc = "collecting"
  /\ LoadsFailed(loads)
  /\ pc' = "failed"
  /\ UNCHANGED <<keys, webhooks, loads, checkouts_info, apps, idx, now,
                 promises, asyncQueue, joined, allState, results, output>>
  /\ UNCHANGED <<gated, loaderVars>>

\* lines 112-115: generate_payloads is called with the values of the three
\* loads: one checkout info per key in key order, one record or None per
\* requested integration id
StartGenerate ==
  /\ pc = "collecting"
  /\ LoadsJoined(loads)
  /\ \E infos \in [1..Len(keys) -> CheckoutInfos], missing \in SUBSET AppIds :
       /\ \A i \in 1..Len(keys) : infos[i].pk = keys[i]
       /\ LET as == [i \in 1..Len(webhooks) |->
                       IF AppsIds(webhooks)[i] \in missing
                       THEN NoApp ELSE AppRecord(AppsIds(webhooks)[i])]
          IN IF AppsMapRaises(as)
             THEN /\ pc' = "failed"
                  /\ apps' = as
                  /\ UNCHANGED <<idx, checkouts_info>>
             ELSE /\ pc' = "evaluating"
                  /\ idx' = 1
                  /\ checkouts_info' = infos
                  /\ apps' = as
  /\ UNCHANGED <<keys, webhooks, loads, now, promises, asyncQueue, joined,
                 allState, results, output>>
  /\ UNCHANGED <<gated, loaderVars>>

\* lines 116-168: one turn of the loop over zip(checkouts_info, checkout_lines_info)
EvalCheckout ==
  /\ pc = "evaluating"
  /\ idx <= Len(checkouts_info)
  /\ \E t \in Times :
       /\ t >= now
       /\ now' = t
       /\ IF Eligible(checkouts_info[idx], t)
          THEN /\ promises' =
                    promises \o IssueFor(checkouts_info[idx], webhooks, apps, 1)
               /\ gated' = gated \cup {checkouts_info[idx].pk}
          ELSE UNCHANGED <<promises, gated>>
  /\ idx' = idx + 1
  /\ UNCHANGED <<keys, pc, webhooks, loads, checkouts_info, apps,
                 asyncQueue, joined, allState, results, output>>
  /\ UNCHANGED loaderVars

\* lines 170-173: Promise.all(promises).then(return_payloads), and
\* generate_payloads returns: its arguments go out of scope
FinishGenerate ==
  /\ pc = "evaluating"
  /\ idx > Len(checkouts_info)
  /\ pc' = "generating"
  /\ IF PromiseAllFulfilled(0, Len(promises))
     THEN allState' = "fulfilled" /\ asyncQueue' = Append(asyncQueue, AllPromise)
     ELSE allState' = "pending" /\ asyncQueue' = asyncQueue
  /\ checkouts_info' = << >>
  /\ apps' = << >>
  /\ idx' = 0
  /\ now' = 1
  /\ UNCHANGED <<keys, webhooks, loads, promises, joined, results, output>>
  /\ UNCHANGED <<gated, loaderVars>>

\* A payload-generation promise is fulfilled with a payload or an empty value
FulfilGeneration(i) ==
  /\ pc \in {"generating", "failed"}
  /\ i \in 1..Len(promises)
  /\ promises[i].state = "pending"
  /\ \E v \in Payloads \cup {NoPayload} :
       promises' = [promises EXCEPT ![i].state = "fulfilled", ![i].value = v]
  /\ asyncQueue' = Append(asyncQueue, i)
  /\ UNCHANGED <<keys, pc, webhooks, loads, checkouts_info, apps, idx, now,
                 joined, allState, results, output>>
  /\ UNCHANGED <<gated, loaderVars>>

\* A payload-generation promise is rejected
RejectGeneration(i) ==
  /\ pc \in {"generating", "failed"}
  /\ i \in 1..Len(promises)
  /\ promises[i].state = "pending"
  /\ promises' = [promises EXCEPT ![i].state = "rejected"]
  /\ asyncQueue' = Append(asyncQueue, i)
  /\ UNCHANGED <<keys, pc, webhooks, loads, checkouts_info, apps, idx, now,
                 joined, allState, results, output>>
  /\ UNCHANGED <<gated, loaderVars>>

\* The handlers of the oldest settled generation promise run in registration
\* order: store_payload (line 168), then the handler of Promise.all (line 173).
\* Settling Promise.all(promises) queues its own handlers.
RunHandlers ==
  /\ asyncQueue # << >>
  /\ Head(asyncQueue) # AllPromise
  /\ LET i == Head(asyncQueue)
         p == promises[i]
         count == IF p.state = "fulfilled" THEN joined + 1 ELSE joined
         settled == PromiseAllState(allState, p.state, count, Len(promises))
     IN /\ results' = IF p.state = "fulfilled"
                      THEN StorePayload(results, p, p.value) ELSE results
        /\ joined' = count
        /\ allState' = settled
        /\ asyncQueue' = IF settled = allState THEN Tail(asyncQueue)
                         ELSE Append(Tail(asyncQueue), AllPromise)
  /\ UNCHANGED <<keys, pc, webhooks, loads, checkouts_info, apps, idx, now,
                 promises, output>>
  /\ UNCHANGED <<gated, loaderVars>>

\* lines 170-171: return_payloads runs on the fulfilled Promise.all(promises)
ReturnPayloads ==
  /\ asyncQueue # << >>
  /\ Head(asyncQueue) = AllPromise
  /\ allState = "fulfilled"
  /\ output' = ReturnPayloadsValue(TouchAll(results, keys), keys)
  /\ results' = TouchAll(results, keys)
  /\ pc' = "done"
  /\ asyncQueue' = Tail(asyncQueue)
  /\ UNCHANGED <<keys, webhooks, loads, checkouts_info, apps, idx, now,
                 promises, joined, allState>>
  /\ UNCHANGED <<gated, loaderVars>>

\* line 173: a rejected Promise.all(promises) rejects batch_load's promise
GenerationFailed ==
  /\ asyncQueue # << >>
  /\ Head(asyncQueue) = AllPromise
  /\ allState = "rejected"
  /\ pc' = "failed"
  /\ asyncQueue' = Tail(asyncQueue)
  /\ UNCHANGED <<keys, webhooks, loads, checkouts_info, apps, idx, now,
                 promises, joined, allState, results, output>>
  /\ UNCHANGED <<gated, loaderVars>>

Next ==
  \/ Setup
  \/ IssueCheckoutsInfo
  \/ IssueLines
  \/ IssueApps
  \/ Join
  \/ \E n \in LoadNames : ResolveLoad(n)
  \/ \E n \in LoadNames : RejectLoad(n)
  \/ DependencyFailed
  \/ StartGenerate
  \/ EvalCheckout
  \/ FinishGenerate
  \/ \E i \in 1..(NumTokens * MaxWebhooks) : FulfilGeneration(i)
  \/ \E i \in 1..(NumTokens * MaxWebhooks) : RejectGeneration(i)
  \/ RunHandlers
  \/ ReturnPayloads
  \/ GenerationFailed

Spec == Init /\ [][Next]_vars

\* =================================================== the keyed loaders
\* The three keyed loaders of lines 32-71, run by the batched loader engine.

\* ---------------------------------------------------------------- bounds
\* Most keys requested from the loaders of one context, over all calls
MaxLoads == 3

\* ------------------------------------------------------- value universes
\* Keys a keyed loader may be asked for
LoaderKeys == {1, 2}

\* Primary keys of the records a filter() bulk fetch may return
RowIds == {1, 2}

\* What EventPayload.get_payload() may return
PayloadTexts == {"x", "y"}

\* The explicit empty value of a key without record (line 41)
None == "None"

\* The errors a bulk fetch may raise
Errors == {"e1", "e2"}

NoError == ""

KeysOf(ks) == {ks[i] : i \in DOMAIN ks}

\* What in_bulk(keys) may find: at most one record per requested id, in any
\* order
PayloadRows(ks) ==
  {rows \in SeqsUpTo([id : KeysOf(ks), payload : PayloadTexts], Len(ks)) :
     \A i, j \in DOMAIN rows : rows[i].id = rows[j].id => i = j}

\* What filter(webhook_id__in=keys) / filter(app_id__in=keys) may return:
\* records whose foreign key is one of the keys, in any order
GroupRows(ks) ==
  {rows \in SeqsUpTo([id : RowIds, fk : KeysOf(ks)], Cardinality(RowIds)) :
     \A i, j \in DOMAIN rows : rows[i].id = rows[j].id => i = j}

RowsFor(l, ks) ==
  IF l = "payload_by_id" THEN PayloadRows(ks) ELSE GroupRows(ks)

\* ---------------------------------------------------- batch_load, by loader
\* The id -> record dictionary in_bulk builds from the records found
InBulk(rows) ==
  [k \in {rows[i].id : i \in DOMAIN rows} |->
     rows[CHOOSE i \in DOMAIN rows : rows[i].id = k]]

PayloadByIdInFetchOrder(ks, rows) ==
  [i \in 1..Len(ks) |-> IF i <= Len(rows) THEN rows[i].payload ELSE None]

\* PayloadByIdLoader.batch_load
PayloadByIdBatchLoad(ks, rows) ==
  LET payloads == InBulk(rows)
  IN [i \in 1..Len(ks) |->
        IF ks[i] \in DOMAIN payloads THEN payloads[ks[i]].payload ELSE None]

RECURSIVE GroupByLastOnly(_, _)
GroupByLastOnly(rows, n) ==
  IF n = 0 THEN EmptyDict
  ELSE Put(GroupByLastOnly(rows, n - 1), rows[n].fk, <<rows[n]>>)

\* for record in records: map[record.<foreign key>].append(record), over the
\* first n records
RECURSIVE GroupBy(_, _)
GroupBy(rows, n) ==
  IF n = 0 THEN EmptyDict
  ELSE LET map == GroupBy(rows, n - 1)
       IN Put(map, rows[n].fk, Append(Get(map, rows[n].fk, << >>), rows[n]))

\* WebhookEventsByWebhookIdLoader.batch_load
WebhookEventsBatchLoad(ks, rows) ==
  LET webhook_events_map == GroupBy(rows, Len(rows))
  IN [i \in 1..Len(ks) |-> Get(webhook_events_map, ks[i], << >>)]

\* WebhooksByAppIdLoader.batch_load
WebhooksByAppBatchLoad(ks, rows) ==
  LET webhooks_by_app_map == GroupBy(rows, Len(rows))
  IN [i \in 1..Len(ks) |-> Get(webhooks_by_app_map, ks[i], << >>)]

BatchLoad(l, ks, rows) ==
  CASE l = "payload_by_id" -> PayloadByIdBatchLoad(ks, rows)
    [] l = "webhook_events_by_webhook_id" -> WebhookEventsBatchLoad(ks, rows)
    [] l = "webhooks_by_app_id" -> WebhooksByAppBatchLoad(ks, rows)

\* ------------------------------------------------------ the loader engine
PendingFuture == [state |-> "pending", value |-> None, error |-> NoError]

CachedNever(cache, k) == FALSE

\* The context's cache of the loader holds a future for the key
Cached(cache, k) == k \in DOMAIN cache

LoadRefetch(st, k) ==
  IF k \in DOMAIN st.cache
  THEN [st EXCEPT !.handed = Append(@, st.cache[k]),
                  !.batch = Append(@, k)]
  ELSE LET f == Len(st.futures) + 1
       IN [cache |-> Put(st.cache, k, f),
           batch |-> Append(st.batch, k),
           futures |-> Append(st.futures, PendingFuture),
           handed |-> Append(st.handed, f)]

\* load(key) on the loader state st = [cache, batch, futures, handed]
Load(st, k) ==
  IF Cached(st.cache, k)
  THEN [st EXCEPT !.handed = Append(@, st.cache[k])]
  ELSE LET f == Len(st.futures) + 1
       IN [cache |-> Put(st.cache, k, f),
           batch |-> Append(st.batch, k),
           futures |-> Append(st.futures, PendingFuture),
           handed |-> Append(st.handed, f)]

\* load of the first n keys of ks, in order
RECURSIVE LoadEach(_, _, _)
LoadEach(st, ks, n) ==
  IF n = 0 THEN st ELSE Load(LoadEach(st, ks, n - 1), ks[n])

\* The futures of the keys of a batch, by position
BatchFutures(cache, ks) == [i \in DOMAIN ks |-> cache[ks[i]]]

\* The futures of the context, those of loader l at ids[i] set to settled[i]
SettleIn(all, l, ids, settled) ==
  [m \in DOMAIN all |->
     IF m = l
     THEN [f \in DOMAIN all[m] |->
             IF \E i \in DOMAIN ids : ids[i] = f
             THEN settled[CHOOSE i \in DOMAIN ids : ids[i] = f]
             ELSE all[m][f]]
     ELSE all[m]]

\* Each future of loader l's batch is resolved with the result at its
\* position; all is the futures of the context by loader
ResolveBatch(all, l, ids, values) ==
  SettleIn(all, l, ids,
           [i \in DOMAIN ids |->
              [state |-> "resolved", value |-> values[i], error |-> NoError]])

RejectFirstOnly(all, l, ids, e) ==
  SettleIn(all, l, <<ids[1]>>,
           <<[state |-> "rejected", value |-> None, error |-> e]>>)

\* Each future of loader l's batch fails with the error of the bulk fetch
RejectBatch(all, l, ids, e) ==
  SettleIn(all, l, ids,
           [i \in DOMAIN ids |->
              [state |-> "rejected", value |-> None, error |-> e]])

\* Loader l was asked for a key in the tick it is in
CalledInTick(l) ==
  \E n \in DOMAIN ldCalls[l] : ldCalls[l][n].tick = ldTick[l]

\* Keys requested in the first n calls
RECURSIVE Requested(_, _)
Requested(calls, n) ==
  IF n = 0 THEN 0 ELSE Len(calls[n].keys) + Requested(calls, n - 1)

\* Keys requested from the loaders in ls, over all their calls
RECURSIVE RequestedFrom(_)
RequestedFrom(ls) ==
  IF ls = {} THEN 0
  ELSE LET l == CHOOSE m \in ls : TRUE
       IN Requested(ldCalls[l], Len(ldCalls[l])) + RequestedFrom(ls \ {l})

\* The orchestrator at rest
PregenIdle ==
  /\ keys = << >>
  /\ pc = "setup"
  /\ webhooks = << >>
  /\ loads = [n \in LoadNames |-> "unissued"]
  /\ checkouts_info = << >>
  /\ apps = << >>
  /\ idx = 0
  /\ now = 1
  /\ promises = << >>
  /\ asyncQueue = << >>
  /\ joined = 0
  /\ allState = "none"
  /\ results = EmptyDict
  /\ output = << >>
  /\ gated = {}

InitLoader == LoaderInit /\ PregenIdle

\* load_many(ks) on loader l; load(k) is the call with the one key k
LoadMany(l, ks) ==
  /\ Len(ks) >= 1
  /\ RequestedFrom(Loaders) + Len(ks) <= MaxLoads
  /\ LET st == LoadEach([cache |-> ldCache[l], batch |-> ldBatch[l],
                         futures |-> ldFutures[l], handed |-> << >>],
                        ks, Len(ks))
     IN /\ ldCache' = [ldCache EXCEPT ![l] = st.cache]
        /\ ldBatch' = [ldBatch EXCEPT ![l] = st.batch]
        /\ ldFutures' = [ldFutures EXCEPT ![l] = st.futures]
        /\ ldCalls' = [ldCalls EXCEPT ![l] =
                         Append(@, [keys |-> ks, futures |-> st.handed,
                                    tick |-> ldTick[l]])]
  /\ UNCHANGED <<ldFetches, ldTick>>
  /\ UNCHANGED pregenVars

\* The flush of loader l at the end of a tick: batch_load on the collected
\* keys, each pending future resolved with the result at its position
Flush(l) ==
  /\ ldBatch[l] # << >>
  /\ \E rows \in RowsFor(l, ldBatch[l]) :
       /\ ldFutures' = ResolveBatch(ldFutures, l,
                                    BatchFutures(ldCache[l], ldBatch[l]),
                                    BatchLoad(l, ldBatch[l], rows))
       /\ ldFetches' = [ldFetches EXCEPT ![l] =
                           Append(@, [keys |-> ldBatch[l], rows |-> rows,
                                      error |-> NoError,
                                      tick |-> ldTick[l]])]
  /\ ldBatch' = [ldBatch EXCEPT ![l] = << >>]
  /\ ldTick' = [ldTick EXCEPT ![l] = @ + 1]
  /\ UNCHANGED <<ldCache, ldCalls>>
  /\ UNCHANGED pregenVars

\* The flush of loader l when the bulk fetch raises e
FlushFail(l, e) ==
  /\ ldBatch[l] # << >>
  /\ ldFutures' = RejectBatch(ldFutures, l,
                              BatchFutures(ldCache[l], ldBatch[l]), e)
  /\ ldFetches' = [ldFetches EXCEPT ![l] =
                      Append(@, [keys |-> ldBatch[l], rows |-> << >>,
                                 error |-> e, tick |-> ldTick[l]])]
  /\ ldBatch' = [ldBatch EXCEPT ![l] = << >>]
  /\ ldTick' = [ldTick EXCEPT ![l] = @ + 1]
  /\ UNCHANGED <<ldCache, ldCalls>>
  /\ UNCHANGED pregenVars

\* The end of a tick in which loader l was asked for cached keys only:
\* nothing is pending, no bulk fetch is made
TickWithoutFetch(l) ==
  /\ ldBatch[l] = << >>
  /\ CalledInTick(l)
  /\ ldTick' = [ldTick EXCEPT ![l] = @ + 1]
  /\ UNCHANGED <<ldCache, ldBatch, ldFutures, ldCalls, ldFetches>>
  /\ UNCHANGED pregenVars

NextLoader ==
  \/ \E l \in Loaders :
       \E ks \in SeqsUpTo(LoaderKeys, MaxLoads - RequestedFrom(Loaders)) :
         LoadMany(l, ks)
  \/ \E l \in Loaders : Flush(l)
  \/ \E l \in Loaders : \E e \in Errors : FlushFail(l, e)
  \/ \E l \in Loaders : TickWithoutFetch(l)

SpecLoader == InitLoader /\ [][NextLoader]_vars

\* ---------------------------------------------------------------- claims
Triple(p) == <<p.checkout_token, p.app_id, p.query_hash>>

HasCell(res, ct, a, h) ==
  /\ ct \in DOMAIN res
  /\ a \in DOMAIN res[ct]
  /\ h \in DOMAIN res[ct][a]

PromiseIds == 1..Len(promises)

\* The promises issued with the checkout of info as subject
PromisesOf(info) == {i \in PromiseIds : promises[i].subject = info.pk}

\* Promise i was fulfilled with a non-empty payload
NonEmpty(i) ==
  promises[i].state = "fulfilled" /\ promises[i].value # NoPayload

\* Checkouts whose turn of the loop has run
Evaluated == IF pc = "evaluating" THEN 1..(idx - 1) ELSE {}

\* C1: when batch_load resolves, the result has one element per input key,
\* element i is the integration id -> fingerprint -> payload mapping stored
\* for keys[i], and a key none of whose generation calls produced a payload
\* has an empty mapping at its position (so without issued calls the result
\* is Len(keys) empty mappings).
C1_ResultAligned ==
  pc = "done" =>
    /\ Len(output) = Len(keys)
    /\ \A i \in 1..Len(keys) :
         /\ TokenStr(keys[i]) \in DOMAIN results
         /\ output[i] = results[TokenStr(keys[i])]
         /\ (\A j \in PromiseIds :
               NonEmpty(j) => promises[j].checkout_token # TokenStr(keys[i]))
            => output[i] = EmptyDict
         /\ \A j \in PromiseIds :
              (NonEmpty(j) /\ promises[j].checkout_token = TokenStr(keys[i]))
              => HasCell(output, i, promises[j].app_id, promises[j].query_hash)

C1_Witness ==
  /\ pc = "done"
  /\ Len(keys) = 2
  /\ output[1] = EmptyDict
  /\ output[2] # EmptyDict

\* C2: no generation call is issued with a checkout as subject whose price
\* expiration is later than the reading of the clock in its turn of the loop,
\* whatever the candidates, the strategy and the preferred integration.
C2_StalenessGate ==
  \A j \in Evaluated :
    PromisesOf(checkouts_info[j]) # {}
      => checkouts_info[j].price_expiration <= now

C2_Witness ==
  /\ pc = "evaluating"
  /\ idx = 2
  /\ checkouts_info[1].tax_strategy = "TAX_APP"
  /\ checkouts_info[1].tax_app_identifier = NoIdentifier
  /\ checkouts_info[1].price_expiration > now
  /\ Len(webhooks) = 2
  /\ \A w \in 1..2 : webhooks[w].subscription_query # ""
  /\ promises = << >>

\* C3: for the eligible checkout whose turn of the loop just ran, a webhook
\* candidate with a subscription query got a generation call if and only if
\* the checkout has no preferred integration or the candidate's integration
\* identifier equals the preferred one.
C3_PreferenceTieBreak ==
  (pc = "evaluating" /\ idx > 1 /\ checkouts_info[idx - 1].tax_strategy = "TAX_APP"
     /\ checkouts_info[idx - 1].price_expiration <= now) =>
    LET info == checkouts_info[idx - 1]
    IN \A w \in 1..Len(webhooks) :
         webhooks[w].subscription_query # "" =>
           ((\E i \in PromisesOf(info) :
               /\ promises[i].app_id = webhooks[w].app_id
               /\ promises[i].subscription_query = webhooks[w].subscription_query)
            <=> (\/ info.tax_app_identifier = NoIdentifier
                 \/ AppIdentifier(webhooks[w].app_id) = info.tax_app_identifier))

C3_Witness ==
  /\ pc = "evaluating"
  /\ idx = 2
  /\ checkouts_info[1].tax_app_identifier = "P"
  /\ Len(webhooks) = 2
  /\ {webhooks[w].app_id : w \in 1..2} = {1, 2}
  /\ \A w \in 1..2 : webhooks[w].subscription_query # ""
  /\ Len(promises) = 1
  /\ promises[1].app_id = 1

\* Promise i has settled and its handlers have run
Handled(i) ==
  /\ promises[i].state # "pending"
  /\ \A q \in 1..Len(asyncQueue) : asyncQueue[q] # i

\* The promises that carry the same triple as promise i
SameTriple(i) == {j \in PromiseIds : Triple(promises[j]) = Triple(promises[i])}

\* C4 as stated: a failed generation call never makes batch_load fail.
C4_FailureIsolated ==
  pc = "failed" => allState # "rejected"

\* C4 amended: a generation call that completes with an empty result leaves
\* no entry and batch_load still resolves with the payloads of the other
\* calls; a generation call that fails rejects Promise.all(promises), so
\* batch_load never resolves and returns no result sequence.
C4_FailureRejectsAll ==
  /\ (\E i \in PromiseIds : promises[i].state = "rejected" /\ Handled(i))
       => (allState = "rejected" /\ pc # "done" /\ output = << >>)
  /\ pc = "done" =>
       \A i \in PromiseIds :
         /\ promises[i].state = "fulfilled"
         /\ NonEmpty(i) =>
              HasCell(results, promises[i].checkout_token,
                      promises[i].app_id, promises[i].query_hash)
         /\ (\A j \in SameTriple(i) : ~NonEmpty(j)) =>
              ~HasCell(results, promises[i].checkout_token,
                       promises[i].app_id, promises[i].query_hash)

C4_Witness ==
  /\ pc = "failed"
  /\ allState = "rejected"
  /\ \E i, j \in PromiseIds :
       /\ promises[i].state = "rejected"
       /\ NonEmpty(j) /\ Handled(j)
       /\ HasCell(results, promises[j].checkout_token,
                  promises[j].app_id, promises[j].query_hash)

\* C5: if one of the three dependency loads fails, generate_payloads never
\* runs: no turn of the loop, no generation call, no result sequence; the
\* call is before its join, waiting at it, or failed.
C5_DependencyFailure ==
  (\E n \in LoadNames : loads[n] = "rejected") =>
    /\ pc \notin {"evaluating", "generating", "done"}
    /\ promises = << >>
    /\ checkouts_info = << >>
    /\ output = << >>

C5_Witness ==
  /\ pc = "failed"
  /\ loads["checkouts_info"] = "resolved"
  /\ loads["lines"] = "resolved"
  /\ loads["apps"] = "rejected"
  /\ Len(keys) = 2
  /\ webhooks # << >>

\* C6 as stated: no two issued generation calls carry the same
\* (checkout token, integration id, fingerprint) triple.
C6_TriplesUnique ==
  \A i, j \in PromiseIds :
    Triple(promises[i]) = Triple(promises[j]) => i = j

\* C6 amended: the generation calls that carry one triple are at most as
\* many as the webhook candidates with a subscription query that have the
\* triple's integration id and fingerprint; calls carry the same triple only
\* when two candidates share integration id and query text, and then their
\* store callbacks write the same cell.
C6_TriplesPerCandidate ==
  \A i \in PromiseIds :
    Cardinality(SameTriple(i)) <=
      Cardinality({w \in 1..Len(webhooks) :
                     /\ webhooks[w].subscription_query # ""
                     /\ webhooks[w].app_id = promises[i].app_id
                     /\ QueryHash(webhooks[w].subscription_query)
                          = promises[i].query_hash})

C6_Witness ==
  /\ Len(promises) = 2
  /\ Triple(promises[1]) = Triple(promises[2])
  /\ webhooks[1] = webhooks[2]

\* C7 as stated: in the result, the cell of every generation call that
\* completed with a non-empty payload holds exactly that call's payload.
C7_EveryPayloadStored ==
  pc = "done" =>
    \A i \in PromiseIds :
      NonEmpty(i) =>
        /\ HasCell(results, promises[i].checkout_token,
                   promises[i].app_id, promises[i].query_hash)
        /\ results[promises[i].checkout_token][promises[i].app_id]
                  [promises[i].query_hash] = promises[i].value

\* C7 amended: when batch_load resolves, the returned maps have an entry under
\* (checkout token, integration id, fingerprint) if and only if a generation
\* call with that triple completed with a non-empty payload; the entry holds
\* the payload of one of these calls, which is that call's payload when a
\* single call carries the triple; a call that completed empty adds nothing.
C7_StoredPayloads ==
  pc = "done" =>
    /\ \A k \in 1..Len(keys) :
         \A a \in DOMAIN output[k] :
           /\ output[k][a] # EmptyDict
           /\ \A h \in DOMAIN output[k][a] :
                \E i \in PromiseIds :
                  /\ NonEmpty(i)
                  /\ Triple(promises[i]) = <<TokenStr(keys[k]), a, h>>
                  /\ output[k][a][h] = promises[i].value
    /\ \A i \in PromiseIds :
         NonEmpty(i) =>
           \E k \in 1..Len(keys) :
             /\ TokenStr(keys[k]) = promises[i].checkout_token
             /\ HasCell(output, k, promises[i].app_id, promises[i].query_hash)
             /\ SameTriple(i) = {i} =>
                  output[k][promises[i].app_id][promises[i].query_hash]
                    = promises[i].value

C7_Witness ==
  /\ pc = "done"
  /\ Len(promises) = 2
  /\ promises[1].value = NoPayload
  /\ promises[2].value = "p2"
  /\ Triple(promises[1]) # Triple(promises[2])
  /\ promises[1].checkout_token = promises[2].checkout_token

\* C8: return_payloads has run only if every issued generation call has
\* completed, the handlers of each have run and every non-empty payload is in
\* the map; without issued calls the projection is queued at once.
C8_FanIn ==
  /\ pc = "done" =>
       \A i \in PromiseIds :
         /\ Handled(i)
         /\ NonEmpty(i) =>
              HasCell(results, promises[i].checkout_token,
                      promises[i].app_id, promises[i].query_hash)
  /\ (pc = "generating" /\ promises = << >>) =>
       (allState = "fulfilled" /\ asyncQueue = <<AllPromise>>)
  /\ (\E q \in 1..Len(asyncQueue) : asyncQueue[q] = AllPromise
        /\ allState = "fulfilled") =>
       \A i \in PromiseIds : Handled(i)

C8_Witness ==
  /\ pc = "done"
  /\ Len(promises) = 2
  /\ promises[1].value = "p1"
  /\ promises[2].value = "p1"
  /\ promises[1].checkout_token # promises[2].checkout_token

\* The map after the store callbacks of the first n promises ran in issue order
RECURSIVE StoredInIssueOrder(_)
StoredInIssueOrder(n) ==
  IF n = 0 THEN EmptyDict
  ELSE LET before == StoredInIssueOrder(n - 1)
       IN IF promises[n].state = "fulfilled"
          THEN StorePayload(before, promises[n], promises[n].value)
          ELSE before

\* The result of the call had the promises completed in issue order
IssueOrderOutput ==
  ReturnPayloadsValue(TouchAll(StoredInIssueOrder(Len(promises)), keys), keys)

\* C9 as stated: the result is the same for every completion order, so it
\* is the result of the completion in issue order.
C9_OrderIndependent ==
  pc = "done" => output = IssueOrderOutput

\* C9 amended: for every completion order the result has the same entries
\* at the same positions, and the same payload in every entry whose triple is
\* carried by a single call; an entry whose triple several calls carry holds
\* the payload of the last of them to complete.
C9_OrderIndependentCells ==
  pc = "done" =>
    /\ Len(output) = Len(IssueOrderOutput)
    /\ \A k \in 1..Len(output) :
         /\ DOMAIN output[k] = DOMAIN IssueOrderOutput[k]
         /\ \A a \in DOMAIN output[k] :
              /\ DOMAIN output[k][a] = DOMAIN IssueOrderOutput[k][a]
              /\ \A h \in DOMAIN output[k][a] :
                   \/ output[k][a][h] = IssueOrderOutput[k][a][h]
                   \/ \E i, j \in PromiseIds :
                        /\ i # j
                        /\ NonEmpty(i) /\ NonEmpty(j)
                        /\ Triple(promises[i]) = <<TokenStr(keys[k]), a, h>>
                        /\ Triple(promises[j]) = <<TokenStr(keys[k]), a, h>>

C9_Witness ==
  /\ pc = "done"
  /\ Len(promises) = 2
  /\ promises[1].value = "p1"
  /\ promises[2].value = "p2"
  /\ promises[1].checkout_token = promises[2].checkout_token
  /\ Triple(promises[1]) # Triple(promises[2])
  /\ joined = 2

\* C10: the three loads are all issued before the join on them is made, and
\* a turn of the loop or a generation call happens only when all three have
\* resolved.
C10_LoadsBeforeGenerate ==
  /\ pc \in {"collecting", "evaluating", "generating", "done"} =>
       \A n \in LoadNames : loads[n] # "unissued"
  /\ (pc \in {"evaluating", "generating", "done"} \/ promises # << >>) =>
       \A n \in LoadNames : loads[n] = "resolved"

C10_Witness ==
  /\ pc = "evaluating"
  /\ idx = 3
  /\ Len(promises) = 2
  /\ \A n \in LoadNames : loads[n] = "resolved"

\* ------------------------------------------------- claims on the loaders
GroupLoaders == {"webhook_events_by_webhook_id", "webhooks_by_app_id"}

\* The successful batch_load calls of loader l, by tick
Fetched(l) == {n \in DOMAIN ldFetches[l] : ldFetches[l][n].error = NoError}

\* The future loader l handed out for key k
FutureOf(l, k) == ldFutures[l][ldCache[l][k]]

\* The records of rows whose foreign key is k, in the order of rows
Matching(rows, k) == SelectSeq(rows, LAMBDA r : r.fk = k)

\* C11: batch_load of the events-by-webhook and the webhooks-by-app loader
\* returns one entry per key; the entry at position i is exactly the fetched
\* records whose foreign key is keys[i], in the order the fetch returned
\* them, the empty sequence when there is none, and no record is placed
\* under a key that is not its foreign key; the future of keys[i] gets that
\* entry.
C11_GroupedByForeignKey ==
  \A l \in GroupLoaders : \A n \in Fetched(l) :
    LET ks == ldFetches[l][n].keys
        rows == ldFetches[l][n].rows
        res == BatchLoad(l, ks, rows)
    IN /\ Len(res) = Len(ks)
       /\ DOMAIN res = DOMAIN ks
       /\ \A i \in DOMAIN ks :
            /\ res[i] = Matching(rows, ks[i])
            /\ \A j \in DOMAIN res[i] : res[i][j].fk = ks[i]
            /\ (~\E j \in DOMAIN rows : rows[j].fk = ks[i]) => res[i] = << >>
            /\ FutureOf(l, ks[i]).state = "resolved"
            /\ FutureOf(l, ks[i]).value = res[i]

\* Both loaders have fetched; the events loader was asked for two keys and
\* got two records of the second key only, the later primary key first
C11_Witness ==
  /\ \E n \in Fetched("webhook_events_by_webhook_id") :
       LET f == ldFetches["webhook_events_by_webhook_id"][n]
       IN /\ Len(f.keys) = 2
          /\ Len(f.rows) = 2
          /\ f.rows[1].fk = f.keys[2] /\ f.rows[2].fk = f.keys[2]
          /\ f.rows[1].id > f.rows[2].id
          /\ FutureOf("webhook_events_by_webhook_id", f.keys[1]).value = << >>
          /\ FutureOf("webhook_events_by_webhook_id", f.keys[2]).value = f.rows
  /\ \E n \in Fetched("webhooks_by_app_id") :
       ldFetches["webhooks_by_app_id"][n].rows # << >>

\* The values the futures of call c of loader l hold, by position
ValuesOf(l, c) == [i \in DOMAIN c.futures |-> ldFutures[l][c.futures[i]].value]

\* Every future of call c of loader l is resolved
AllResolved(l, c) ==
  \A i \in DOMAIN c.futures : ldFutures[l][c.futures[i]].state = "resolved"

\* The payload of the record of rows whose id is k, None when rows has none
PayloadOrNone(rows, k) ==
  IF \E j \in DOMAIN rows : rows[j].id = k
  THEN rows[CHOOSE j \in DOMAIN rows : rows[j].id = k].payload
  ELSE None

\* C12: load_many([k1..kn]) returns n futures, the one at position i being
\* the future of k_i, and the payload-by-id batch_load behind it returns one
\* entry per key: at position i the payload of the fetched record whose id
\* is keys[i], whatever the order the bulk fetch returned the records in,
\* and the explicit None when the fetch returned no record for keys[i].
C12_OrderPreserved ==
  /\ \A l \in Loaders : \A n \in DOMAIN ldCalls[l] :
       LET c == ldCalls[l][n]
       IN /\ Len(c.futures) = Len(c.keys)
          /\ \A i \in DOMAIN c.keys : c.futures[i] = ldCache[l][c.keys[i]]
  /\ \A n \in Fetched("payload_by_id") :
       LET ks == ldFetches["payload_by_id"][n].keys
           rows == ldFetches["payload_by_id"][n].rows
           res == BatchLoad("payload_by_id", ks, rows)
       IN /\ Len(res) = Len(ks)
          /\ \A i \in DOMAIN ks :
               /\ res[i] = PayloadOrNone(rows, ks[i])
               /\ FutureOf("payload_by_id", ks[i]).state = "resolved"
               /\ FutureOf("payload_by_id", ks[i]).value = res[i]

\* load_many of two payload ids has resolved; the fetch returned one record
\* only, that of the second id: the first position holds None, the second
\* the record's payload
C12_Witness ==
  \E n \in DOMAIN ldCalls["payload_by_id"] :
    LET c == ldCalls["payload_by_id"][n]
    IN /\ Len(c.keys) = 2
       /\ c.keys[1] # c.keys[2]
       /\ AllResolved("payload_by_id", c)
       /\ \E m \in Fetched("payload_by_id") :
            LET f == ldFetches["payload_by_id"][m]
            IN /\ f.keys = c.keys
               /\ Len(f.rows) = 1
               /\ f.rows[1].id = c.keys[2]
               /\ ValuesOf("payload_by_id", c) = <<None, f.rows[1].payload>>

\* The keys requested from loader l by its calls of tick t
RequestedIn(l, t) ==
  UNION {KeysOf(ldCalls[l][n].keys) :
           n \in {m \in DOMAIN ldCalls[l] : ldCalls[l][m].tick = t}}

\* The keys requested from loader l before tick t
RequestedBefore(l, t) ==
  UNION {KeysOf(ldCalls[l][n].keys) :
           n \in {m \in DOMAIN ldCalls[l] : ldCalls[l][m].tick < t}}

NoDuplicates(ks) == \A i, j \in DOMAIN ks : ks[i] = ks[j] => i = j

\* Calls of one tick of loader l that requested the same key got the same
\* future
SameKeySameFuture(l) ==
  \A n, m \in DOMAIN ldCalls[l] :
    LET c == ldCalls[l][n]
        d == ldCalls[l][m]
    IN c.tick = d.tick =>
         \A i \in DOMAIN c.keys : \A j \in DOMAIN d.keys :
           c.keys[i] = d.keys[j] => c.futures[i] = d.futures[j]

\* The bulk fetches loader l made at the end of tick t
FetchesOf(l, t) == {n \in DOMAIN ldFetches[l] : ldFetches[l][n].tick = t}

\* At the end of tick t loader l made exactly one bulk fetch, given the
\* keys of K, each once
OneFetchOf(l, t, K) ==
  /\ Cardinality(FetchesOf(l, t)) = 1
  /\ \A n \in FetchesOf(l, t) :
       /\ KeysOf(ldFetches[l][n].keys) = K
       /\ NoDuplicates(ldFetches[l][n].keys)

\* C13 as stated: a tick in which keys were requested from a loader ends
\* with exactly one bulk fetch, given exactly the distinct keys requested in
\* that tick, and callers of the same key got the same future.
C13_DedupAllKeys ==
  \A l \in Loaders :
    /\ \A t \in 1..(ldTick[l] - 1) :
         RequestedIn(l, t) # {} => OneFetchOf(l, t, RequestedIn(l, t))
    /\ SameKeySameFuture(l)

\* C13: a tick in which keys were requested from a loader ends with exactly
\* one bulk fetch, given exactly the distinct keys requested in that tick
\* that had not been requested from the loader in an earlier tick of the
\* context, and with no bulk fetch when there is no such key; the keys
\* being collected in the current tick are those requested in it and not
\* before, each once; callers of the same key got the same future.
C13_DedupNewKeys ==
  \A l \in Loaders :
    /\ \A t \in 1..(ldTick[l] - 1) :
         LET new == RequestedIn(l, t) \ RequestedBefore(l, t)
         IN IF new = {} THEN FetchesOf(l, t) = {}
            ELSE OneFetchOf(l, t, new)
    /\ FetchesOf(l, ldTick[l]) = {}
    /\ KeysOf(ldBatch[l]) =
         RequestedIn(l, ldTick[l]) \ RequestedBefore(l, ldTick[l])
    /\ NoDuplicates(ldBatch[l])
    /\ SameKeySameFuture(l)

\* A key was requested twice and another once in one call of the first tick
\* of a loader; the flush fetched the two distinct keys
C13_Witness ==
  \E l \in Loaders :
    /\ ldTick[l] = 2
    /\ Len(ldFetches[l]) = 1
    /\ Len(ldFetches[l][1].keys) = 2
    /\ \E n \in DOMAIN ldCalls[l] :
         /\ Len(ldCalls[l][n].keys) = 3
         /\ ldCalls[l][n].keys[1] = ldCalls[l][n].keys[3]
         /\ ldCalls[l][n].futures[1] = ldCalls[l][n].futures[3]
         /\ ldCalls[l][n].tick = 1

\* The places <<n, i>> where key k was passed to the bulk fetch of loader l
FetchedAt(l, k) ==
  UNION {{<<n, i>> : i \in {j \in DOMAIN ldFetches[l][n].keys :
                              ldFetches[l][n].keys[j] = k}} :
           n \in DOMAIN ldFetches[l]}

\* C14: within a context each key is passed to the bulk fetch of a loader at
\* most once; every call for a key is handed the one future of that key; a
\* call made for a key after the tick whose fetch resolved it is handed the
\* future holding the value that fetch produced for the key, and the key is
\* added to no batch: it is neither being collected nor passed to a later
\* fetch.
C14_CacheReuse ==
  \A l \in Loaders :
    /\ \A k \in LoaderKeys : Cardinality(FetchedAt(l, k)) <= 1
    /\ \A n \in DOMAIN ldCalls[l] : \A i \in DOMAIN ldCalls[l][n].keys :
         LET c == ldCalls[l][n]
             k == c.keys[i]
         IN /\ c.futures[i] = ldCache[l][k]
            /\ \A p \in FetchedAt(l, k) :
                 LET f == ldFetches[l][p[1]]
                 IN (f.tick < c.tick /\ f.error = NoError) =>
                      /\ ldFutures[l][c.futures[i]].state = "resolved"
                      /\ ldFutures[l][c.futures[i]].value =
                           BatchLoad(l, f.keys, f.rows)[p[2]]
                      /\ k \notin KeysOf(ldBatch[l])
                      /\ \A m \in DOMAIN ldFetches[l] :
                           m # p[1] => k \notin KeysOf(ldFetches[l][m].keys)

\* A key resolved by the fetch of the first tick was asked for again in the
\* second tick, which has ended: the call got the resolved future and the
\* loader has made no other fetch
C14_Witness ==
  \E l \in Loaders : \E n \in DOMAIN ldCalls[l] :
    /\ ldCalls[l][n].tick = 2
    /\ ldTick[l] = 3
    /\ Len(ldFetches[l]) = 1
    /\ ldFetches[l][1].error = NoError
    /\ ldCalls[l][n].keys[1] \in KeysOf(ldFetches[l][1].keys)
    /\ ldFutures[l][ldCalls[l][n].futures[1]].state = "resolved"

\* The key loader l created future f for
KeyOfFuture(l, f) == CHOOSE k \in DOMAIN ldCache[l] : ldCache[l][k] = f

\* The failed bulk fetches of loader l
Failed(l) == {n \in DOMAIN ldFetches[l] : ldFetches[l][n].error # NoError}

\* C15: when the bulk fetch of a tick fails, every future of that batch has
\* failed with the error of the fetch and none of them is resolved; every
\* future of a batch whose fetch succeeded is resolved; and a future has
\* failed only if its key was in a failed batch of its own loader, with that
\* batch's error: futures of other ticks or loaders are left as they were.
C15_BatchFailure ==
  \A l \in Loaders :
    /\ \A n \in Failed(l) : \A i \in DOMAIN ldFetches[l][n].keys :
         /\ FutureOf(l, ldFetches[l][n].keys[i]).state = "rejected"
         /\ FutureOf(l, ldFetches[l][n].keys[i]).error = ldFetches[l][n].error
    /\ \A n \in Fetched(l) : \A i \in DOMAIN ldFetches[l][n].keys :
         FutureOf(l, ldFetches[l][n].keys[i]).state = "resolved"
    /\ \A f \in DOMAIN ldFutures[l] :
         /\ ldFutures[l][f].state = "rejected" =>
              \E n \in Failed(l) :
                /\ KeyOfFuture(l, f) \in KeysOf(ldFetches[l][n].keys)
                /\ ldFutures[l][f].error = ldFetches[l][n].error
         /\ ldFutures[l][f].state = "pending" =>
              KeyOfFuture(l, f) \in KeysOf(ldBatch[l])

\* The fetch of a batch of two keys failed and both futures failed with its
\* error, while a future of another loader is resolved
C15_Witness ==
  \E l, m \in Loaders :
    /\ l # m
    /\ \E n \in Failed(l) :
         /\ Len(ldFetches[l][n].keys) = 2
         /\ \A i \in 1..2 :
              FutureOf(l, ldFetches[l][n].keys[i]).error = ldFetches[l][n].error
    /\ \E f \in DOMAIN ldFutures[m] : ldFutures[m][f].state = "resolved"

\* ------------------------------------------ claims on the orchestrator, II
\* Some webhook is a selected candidate for the checkout of info
HasCandidate(info) ==
  \E w \in 1..Len(webhooks) :
    /\ webhooks[w].subscription_query # ""
    /\ \/ info.tax_app_identifier = NoIdentifier
       \/ AppIdentifier(webhooks[w].app_id) = info.tax_app_identifier

\* C16: for the checkout whose turn of the loop just ran, with now the
\* reading of the clock in that turn: generation calls were issued for it
\* only if its tax strategy is TAX_APP and its price expiration is not later
\* than now; with any other strategy it got no call, expired or not; and
\* with TAX_APP, an expiration at or before now (equal to now included) and
\* a selected candidate it did get a call.
C16_EligibilityGate ==
  (pc = "evaluating" /\ idx > 1) =>
    LET info == checkouts_info[idx - 1]
    IN /\ PromisesOf(info) # {} =>
            (info.tax_strategy = "TAX_APP" /\ info.price_expiration <= now)
       /\ info.tax_strategy # "TAX_APP" => PromisesOf(info) = {}
       /\ (info.tax_strategy = "TAX_APP" /\ info.price_expiration = now
             /\ HasCandidate(info)) => PromisesOf(info) # {}
       /\ (info.tax_strategy = "TAX_APP" /\ info.price_expiration < now
             /\ HasCandidate(info)) => PromisesOf(info) # {}

\* Both checkouts had their turn: the first, with another strategy and
\* expired prices, got no call; the second, with TAX_APP and prices expiring
\* at the very reading of the clock, got one
C16_Witness ==
  /\ pc = "evaluating"
  /\ idx = 3
  /\ checkouts_info[1].tax_strategy = "FLAT_RATES"
  /\ checkouts_info[1].price_expiration = 1
  /\ checkouts_info[2].tax_strategy = "TAX_APP"
  /\ checkouts_info[2].price_expiration = now
  /\ now = MaxTime
  /\ PromisesOf(checkouts_info[1]) = {}
  /\ PromisesOf(checkouts_info[2]) # {}

\* The selected candidates of the checkout of info whose integration is a
\* and whose query text is q
CandidatesWith(info, a, q) ==
  {w \in 1..Len(webhooks) :
     /\ webhooks[w].app_id = a
     /\ webhooks[w].subscription_query = q
     /\ q # ""
     /\ \/ info.tax_app_identifier = NoIdentifier
        \/ AppIdentifier(a) = info.tax_app_identifier}

\* The selected candidates of the checkout of info
SelectedCandidates(info) ==
  UNION {CandidatesWith(info, a, q) : <<a, q>> \in AppIds \X Queries}

\* The calls among ps issued with integration a and query text q
CallsWith(ps, a, q) ==
  {i \in DOMAIN ps : ps[i].app_id = a /\ ps[i].subscription_query = q}

\* C17: a turn of the loop keeps the calls issued before it and adds, for a
\* checkout that is eligible at the turn's reading of the clock, exactly one
\* call per selected candidate, with that checkout as subject and the
\* candidate's query text and integration (as many calls with an integration
\* and a query text as there are selected candidates with them, so none for
\* a candidate without query text), and no call for a checkout that is not
\* eligible: the calls grow by exactly the number of selected candidates of
\* an eligible checkout, so that their total is the number of (eligible
\* checkout, selected candidate) pairs.
C17_OneCallPerPair ==
  [][(pc = "evaluating" /\ idx' = idx + 1) =>
       LET info == checkouts_info[idx]
           added == SubSeq(promises', Len(promises) + 1, Len(promises'))
       IN /\ Len(promises') >= Len(promises)
          /\ SubSeq(promises', 1, Len(promises)) = promises
          /\ \A i \in DOMAIN added :
               /\ added[i].subject = info.pk
               /\ added[i].subscription_query # ""
               /\ added[i].state = "pending"
          /\ IF info.tax_strategy = "TAX_APP" /\ info.price_expiration <= now'
             THEN /\ \A a \in AppIds : \A q \in Queries :
                       Cardinality(CallsWith(added, a, q)) =
                         Cardinality(CandidatesWith(info, a, q))
                  /\ Len(added) = Cardinality(SelectedCandidates(info))
             ELSE added = << >>]_vars

\* The one checkout was eligible; of its two candidates the first has no
\* query text and the second is selected: one call, that of the second
C17_Witness ==
  /\ pc = "evaluating"
  /\ idx = 2
  /\ Len(webhooks) = 2
  /\ webhooks[1].subscription_query = ""
  /\ SelectedCandidates(checkouts_info[1]) = {2}
  /\ Len(promises) = 1
  /\ promises[1].subject = checkouts_info[1].pk
  /\ promises[1].app_id = webhooks[2].app_id
  /\ promises[1].subscription_query = webhooks[2].subscription_query

\* The apps load resolved with no record for some referenced integration
MissingApp == \E i \in DOMAIN apps : apps[i] = NoApp

\* C19 as stated: when the apps load resolved with the explicit empty value
\* for a referenced integration id, batch_load does not fail.
C19_MissingAppTolerated == MissingApp => pc # "failed"

\* What the code does: with the empty value among the apps, generate_payloads
\* raises while it builds apps_map, before any turn of the loop: batch_load
\* has failed, no generation call was issued and there is no result.
C19_MissingAppFails ==
  MissingApp =>
    /\ pc = "failed"
    /\ promises = << >>
    /\ output = << >>
    /\ results = EmptyDict

\* Of the two integrations referenced, one has a record and one has none
C19_Witness ==
  /\ MissingApp
  /\ Len(apps) = 2
  /\ \E i \in DOMAIN apps : apps[i] # NoApp
  /\ \A n \in LoadNames : loads[n] = "resolved"

\* The steps the interpreter and the promise queue take on their own: the
\* synchronous code of batch_load and generate_payloads, and the handlers
\* queued by settled promises
Scheduled ==
  \/ Setup
  \/ IssueCheckoutsInfo
  \/ IssueLines
  \/ IssueApps
  \/ Join
  \/ DependencyFailed
  \/ StartGenerate
  \/ EvalCheckout
  \/ FinishGenerate
  \/ RunHandlers
  \/ ReturnPayloads
  \/ GenerationFailed

\* batch_load where the scheduled steps are taken and every issued generation
\* call completes in the end; the loads may stay pending
SpecLive ==
  /\ Spec
  /\ WF_vars(Scheduled)
  /\ \A i \in 1..(NumTokens * MaxWebhooks) :
       WF_vars(FulfilGeneration(i) \/ RejectGeneration(i))

\* C18 as stated, every issued generation call completing in the end: once
\* the three loads have resolved batch_load resolves in the end, unless a
\* generation call completed by failing; and batch_load is not resolved
\* while an issued generation call has not completed.
C18_ResolvesInTheEnd ==
  /\ LoadsJoined(loads) ~>
       (pc = "done" \/ \E i \in PromiseIds : promises[i].state = "rejected")
  /\ [](pc = "done" => \A i \in PromiseIds : promises[i].state # "pending")

GatedTokens == {TokenStr(t) : t \in gated}

\* Every payload held by the mapping m (integration id -> fingerprint ->
\* payload) is the payload a generation call with subject pk completed with,
\* under that call's integration id and fingerprint
OnlyPayloadsOf(m, pk) ==
  \A a \in DOMAIN m : \A h \in DOMAIN m[a] :
    \E i \in PromiseIds :
      /\ promises[i].subject = pk
      /\ promises[i].app_id = a
      /\ promises[i].query_hash = h
      /\ promises[i].state = "fulfilled"
      /\ promises[i].value = m[a][h]
      /\ m[a][h] # NoPayload

\* The mapping at each position of the result holds only payloads of calls
\* whose subject is the checkout of the token at that position
OutputOwnPayloads ==
  pc = "done" =>
    \A i \in 1..Len(keys) :
      /\ output[i] = results[TokenStr(keys[i])]
      /\ OnlyPayloadsOf(output[i], keys[i])

\* C20 as stated: every top-level key of the results map is the string form
\* of the pk of a checkout that passed the gate in this call, and the mapping
\* at each position of the result holds only payloads of calls whose subject
\* is that position's checkout.
C20_NoLeakage ==
  /\ DOMAIN results \subseteq GatedTokens
  /\ OutputOwnPayloads

\* C20: every top-level key of the results map under which something is
\* stored is the string form of the pk of a checkout that passed the gate in
\* this call, and what is stored under it are payloads of calls whose subject
\* is that checkout; the only other top-level keys are those of the input
\* tokens, created empty when return_payloads reads the map, so before
\* batch_load resolves every key is that of a gated checkout; the mapping at
\* each position of the result holds only payloads of calls whose subject is
\* that position's checkout.
C20_NoLeakageOfPayloads ==
  /\ \A ct \in DOMAIN results :
       /\ \E t \in Tokens :
            /\ ct = TokenStr(t)
            /\ OnlyPayloadsOf(results[ct], t)
            /\ \E i \in 1..Len(keys) : keys[i] = t
       /\ results[ct] # EmptyDict => ct \in GatedTokens
       /\ pc # "done" => ct \in GatedTokens
  /\ OutputOwnPayloads

\* batch_load resolved for two checkouts of which only the second passed the
\* gate: the second position holds a payload, the first is empty
C20_Witness ==
  /\ pc = "done"
  /\ Len(keys) = 2
  /\ gated = {keys[2]}
  /\ output[1] = EmptyDict
  /\ output[2] # EmptyDict
  /\ OnlyPayloadsOf(output[2], keys[2])

====
